---- MODULE Spec2Model ----
(***************************************************************************)
(* The growable circular byte buffer (struct circlebuf) of source.hpp as a *)
(* state machine.  The buffer is one record with the five fields of the    *)
(* struct; every circlebuf_* function is an operator over that record,     *)
(* every call of one is an action.  Storage that brealloc hands out is     *)
(* uninitialised: its new cells take arbitrary byte values.                *)
(***************************************************************************)
EXTENDS Integers, Sequences, FiniteSets, TLC

\* Bounds of the model.
MaxCap == 4
MaxLen == 2

\* The functions only copy bytes and write zeros, they never inspect a value:
\* zero and one non-zero value tell every byte order apart.
Bytes == {0, 1}

\* Every byte string of at most n bytes (the data argument of push and place).
ByteSeqs(n) == UNION {[1..k -> Bytes] : k \in 0..n}

Max(a, b) == IF a > b THEN a ELSE b

(***************************************************************************)
(* libc / bmem primitives over the storage, a function 0..capacity-1 ->    *)
(* byte.                                                                   *)
(***************************************************************************)

\* What a read outside the storage yields: no byte value, so that it shows
\* wherever it ends up.
Wild == -1

\* The n bytes of mem from offset off on, as a sequence.
read(mem, off, n) ==
  [i \in 1..n |-> IF off + i - 1 \in DOMAIN mem THEN mem[off + i - 1] ELSE Wild]

\* memcpy(mem + off, src, Len(src)).  A write outside the storage shows as a
\* cell outside 0..capacity-1.
memcpy(mem, off, src) ==
  [i \in DOMAIN mem \cup (off..(off + Len(src) - 1)) |->
     IF off <= i /\ i < off + Len(src) THEN src[i - off + 1] ELSE mem[i]]

\* memset(mem + off, c, n).
memset(mem, off, c, n) ==
  [i \in DOMAIN mem \cup (off..(off + n - 1)) |->
     IF off <= i /\ i < off + n THEN c ELSE mem[i]]

\* memmove(mem + dst, mem + src, n): the source bytes are read before any write.
memmove(mem, dst, src, n) == memcpy(mem, dst, read(mem, src, n))

\* brealloc(mem, new_capacity): the old bytes are kept, the cells added are
\* uninitialised and hold whatever fresh says.
brealloc(mem, new_capacity, fresh) ==
  [i \in 0..(new_capacity - 1) |-> IF i \in DOMAIN mem THEN mem[i] ELSE fresh[i]]

(***************************************************************************)
(* struct circlebuf and its functions.                                     *)
(***************************************************************************)

\* memset(cb, 0, sizeof(struct circlebuf)): data is NULL, a storage of no cells.
circlebuf_init ==
  [data |-> [i \in {} |-> 0], size |-> 0, start_pos |-> 0, end_pos |-> 0,
   capacity |-> 0]

circlebuf_free(cb) == circlebuf_init

\* circlebuf_reorder_data with >= for > in its test: a full buffer whose bytes
\* wrap (end_pos = start_pos) is taken for one that does not.
reorder_data_skips_full(cb, new_capacity) ==
  IF cb.size = 0 \/ cb.start_pos = 0 \/ cb.end_pos >= cb.start_pos
  THEN cb
  ELSE LET difference == new_capacity - cb.capacity
       IN [cb EXCEPT
             !.data = memmove(cb.data, cb.start_pos + difference, cb.start_pos,
                              cb.capacity - cb.start_pos),
             !.start_pos = cb.start_pos + difference]

circlebuf_reorder_data(cb, new_capacity) ==
  IF cb.size = 0 \/ cb.start_pos = 0 \/ cb.end_pos > cb.start_pos
  THEN cb
  ELSE LET difference == new_capacity - cb.capacity
       IN [cb EXCEPT
             !.data = memmove(cb.data, cb.start_pos + difference, cb.start_pos,
                              cb.capacity - cb.start_pos),
             !.start_pos = cb.start_pos + difference]

\* circlebuf_ensure_capacity without the test for a size above twice the
\* capacity: it only ever doubles.
ensure_capacity_only_doubles(cb, fresh) ==
  IF cb.size <= cb.capacity
  THEN cb
  ELSE LET new_capacity == cb.capacity * 2
           moved == circlebuf_reorder_data(
                      [cb EXCEPT !.data = brealloc(cb.data, new_capacity, fresh)],
                      new_capacity)
       IN [moved EXCEPT !.capacity = new_capacity]

\* circlebuf_ensure_capacity without the doubling: it grows to the size needed.
ensure_capacity_exact_fit(cb, fresh) ==
  IF cb.size <= cb.capacity
  THEN cb
  ELSE LET new_capacity == cb.size
           moved == circlebuf_reorder_data(
                      [cb EXCEPT !.data = brealloc(cb.data, new_capacity, fresh)],
                      new_capacity)
       IN [moved EXCEPT !.capacity = new_capacity]

circlebuf_ensure_capacity(cb, fresh) ==
  IF cb.size <= cb.capacity
  THEN cb
  ELSE LET doubled == cb.capacity * 2
           new_capacity == IF cb.size > doubled THEN cb.size ELSE doubled
           moved == circlebuf_reorder_data(
                      [cb EXCEPT !.data = brealloc(cb.data, new_capacity, fresh)],
                      new_capacity)
       IN [moved EXCEPT !.capacity = new_capacity]

\* circlebuf_reserve that returns early only for the capacity it already has:
\* a smaller request reallocates.
reserve_any_capacity(cb, capacity, fresh) ==
  IF capacity = cb.capacity
  THEN cb
  ELSE LET moved == circlebuf_reorder_data(
                      [cb EXCEPT !.data = brealloc(cb.data, capacity, fresh)],
                      capacity)
       IN [moved EXCEPT !.capacity = capacity]

circlebuf_reserve(cb, capacity, fresh) ==
  IF capacity <= cb.capacity
  THEN cb
  ELSE LET moved == circlebuf_reorder_data(
                      [cb EXCEPT !.data = brealloc(cb.data, capacity, fresh)],
                      capacity)
       IN [moved EXCEPT !.capacity = capacity]

\* circlebuf_upsize that zeroes the cells up to the end of the storage but not
\* those it continues with at offset 0.
upsize_no_loop_zero(cb, size, fresh) ==
  LET add_size == size - cb.size
      grown == circlebuf_ensure_capacity([cb EXCEPT !.size = size], fresh)
      new_end_pos == cb.end_pos + add_size
  IN IF size <= cb.size
     THEN cb
     ELSE IF new_end_pos > grown.capacity
          THEN LET back_size == grown.capacity - grown.end_pos
                   tail == IF back_size # 0
                           THEN memset(grown.data, grown.end_pos, 0, back_size)
                           ELSE grown.data
               IN [grown EXCEPT !.data = tail,
                                !.end_pos = new_end_pos - grown.capacity]
          ELSE [grown EXCEPT !.data = memset(grown.data, grown.end_pos, 0, add_size),
                             !.end_pos = new_end_pos]

circlebuf_upsize(cb, size, fresh) ==
  LET add_size == size - cb.size
      grown == circlebuf_ensure_capacity([cb EXCEPT !.size = size], fresh)
      new_end_pos == cb.end_pos + add_size
  IN IF size <= cb.size
     THEN cb
     ELSE IF new_end_pos > grown.capacity
          THEN LET back_size == grown.capacity - grown.end_pos
                   loop_size == add_size - back_size
                   tail == IF back_size # 0
                           THEN memset(grown.data, grown.end_pos, 0, back_size)
                           ELSE grown.data
               IN [grown EXCEPT !.data = memset(tail, 0, 0, loop_size),
                                !.end_pos = new_end_pos - grown.capacity]
          ELSE [grown EXCEPT !.data = memset(grown.data, grown.end_pos, 0, add_size),
                             !.end_pos = new_end_pos]

\* Overwrites data at a specific point in the buffer (relative).
circlebuf_place(cb, position, data, fresh) ==
  LET size == Len(data)
      end_point == position + size
      up == IF end_point > cb.size THEN circlebuf_upsize(cb, end_point, fresh) ELSE cb
      shifted == position + up.start_pos
      pos == IF shifted >= up.capacity THEN shifted - up.capacity ELSE shifted
      data_end_pos == pos + size
  IN IF data_end_pos > up.capacity
     THEN LET back_size == data_end_pos - up.capacity
              loop_size == size - back_size
          IN [up EXCEPT !.data =
                memcpy(memcpy(up.data, pos, SubSeq(data, 1, loop_size)),
                       0, SubSeq(data, loop_size + 1, size))]
     ELSE [up EXCEPT !.data = memcpy(up.data, pos, data)]

\* circlebuf_push_back that wraps as soon as the new end reaches the capacity.
push_back_wraps_early(cb, data, fresh) ==
  LET size == Len(data)
      new_end_pos == cb.end_pos + size
      grown == circlebuf_ensure_capacity([cb EXCEPT !.size = cb.size + size], fresh)
  IN IF new_end_pos >= grown.capacity
     THEN LET back_size == grown.capacity - grown.end_pos
              loop_size == size - back_size
              tail == IF back_size # 0
                      THEN memcpy(grown.data, grown.end_pos, SubSeq(data, 1, back_size))
                      ELSE grown.data
          IN [grown EXCEPT
                !.data = memcpy(tail, 0, SubSeq(data, back_size + 1, back_size + loop_size)),
                !.end_pos = new_end_pos - grown.capacity]
     ELSE [grown EXCEPT !.data = memcpy(grown.data, grown.end_pos, data),
                        !.end_pos = new_end_pos]

circlebuf_push_back(cb, data, fresh) ==
  LET size == Len(data)
      new_end_pos == cb.end_pos + size
      grown == circlebuf_ensure_capacity([cb EXCEPT !.size = cb.size + size], fresh)
  IN IF new_end_pos > grown.capacity
     THEN LET back_size == grown.capacity - grown.end_pos
              loop_size == size - back_size
              tail == IF back_size # 0
                      THEN memcpy(grown.data, grown.end_pos, SubSeq(data, 1, back_size))
                      ELSE grown.data
          IN [grown EXCEPT
                !.data = memcpy(tail, 0, SubSeq(data, back_size + 1, back_size + loop_size)),
                !.end_pos = new_end_pos - grown.capacity]
     ELSE [grown EXCEPT !.data = memcpy(grown.data, grown.end_pos, data),
                        !.end_pos = new_end_pos]

circlebuf_push_front(cb, data, fresh) ==
  LET size == Len(data)
      grown == circlebuf_ensure_capacity([cb EXCEPT !.size = cb.size + size], fresh)
  IN IF grown.size = size
     THEN [grown EXCEPT !.start_pos = 0, !.end_pos = size,
                        !.data = memcpy(grown.data, 0, data)]
     ELSE IF grown.start_pos < size
          THEN LET back_size == size - grown.start_pos
                   head == IF grown.start_pos # 0
                           THEN memcpy(grown.data, 0, SubSeq(data, back_size + 1, size))
                           ELSE grown.data
                   start_pos == grown.capacity - back_size
               IN [grown EXCEPT
                     !.start_pos = start_pos,
                     !.data = memcpy(head, start_pos, SubSeq(data, 1, back_size))]
          ELSE [grown EXCEPT
                  !.start_pos = grown.start_pos - size,
                  !.data = memcpy(grown.data, grown.start_pos - size, data)]

circlebuf_push_back_zero(cb, size, fresh) ==
  LET new_end_pos == cb.end_pos + size
      grown == circlebuf_ensure_capacity([cb EXCEPT !.size = cb.size + size], fresh)
  IN IF new_end_pos > grown.capacity
     THEN LET back_size == grown.capacity - grown.end_pos
              loop_size == size - back_size
              tail == IF back_size # 0
                      THEN memset(grown.data, grown.end_pos, 0, back_size)
                      ELSE grown.data
          IN [grown EXCEPT !.data = memset(tail, 0, 0, loop_size),
                           !.end_pos = new_end_pos - grown.capacity]
     ELSE [grown EXCEPT !.data = memset(grown.data, grown.end_pos, 0, size),
                        !.end_pos = new_end_pos]

\* circlebuf_push_front_zero that, when the new bytes wrap, zeroes those at
\* the end of the storage but not those in front of start_pos.
push_front_zero_no_head(cb, size, fresh) ==
  LET grown == circlebuf_ensure_capacity([cb EXCEPT !.size = cb.size + size], fresh)
  IN IF grown.size = size
     THEN [grown EXCEPT !.start_pos = 0, !.end_pos = size,
                        !.data = memset(grown.data, 0, 0, size)]
     ELSE IF grown.start_pos < size
          THEN LET back_size == size - grown.start_pos
                   start_pos == grown.capacity - back_size
               IN [grown EXCEPT !.start_pos = start_pos,
                                !.data = memset(grown.data, start_pos, 0, back_size)]
          ELSE [grown EXCEPT
                  !.start_pos = grown.start_pos - size,
                  !.data = memset(grown.data, grown.start_pos - size, 0, size)]

circlebuf_push_front_zero(cb, size, fresh) ==
  LET grown == circlebuf_ensure_capacity([cb EXCEPT !.size = cb.size + size], fresh)
  IN IF grown.size = size
     THEN [grown EXCEPT !.start_pos = 0, !.end_pos = size,
                        !.data = memset(grown.data, 0, 0, size)]
     ELSE IF grown.start_pos < size
          THEN LET back_size == size - grown.start_pos
                   head == IF grown.start_pos # 0
                           THEN memset(grown.data, 0, 0, grown.start_pos)
                           ELSE grown.data
                   start_pos == grown.capacity - back_size
               IN [grown EXCEPT !.start_pos = start_pos,
                                !.data = memset(head, start_pos, 0, back_size)]
          ELSE [grown EXCEPT
                  !.start_pos = grown.start_pos - size,
                  !.data = memset(grown.data, grown.start_pos - size, 0, size)]

\* assert(size <= cb->size) guards every peek and pop: ok is FALSE when it
\* fails and the program aborts.  data is TRUE for a non-null destination, out
\* is what was copied to it, cb the struct as the function leaves it.
\* circlebuf_peek_front that moves start_pos past what it copied.
peek_front_consuming(cb, data, size) ==
  IF ~(size <= cb.size)
  THEN [ok |-> FALSE, out |-> <<>>, cb |-> cb]
  ELSE IF data
       THEN LET start_size == cb.capacity - cb.start_pos
                advanced == [cb EXCEPT !.start_pos = (cb.start_pos + size) % cb.capacity]
            IN IF start_size < size
               THEN [ok |-> TRUE, cb |-> advanced,
                     out |-> read(cb.data, cb.start_pos, start_size)
                             \o read(cb.data, 0, size - start_size)]
               ELSE [ok |-> TRUE, cb |-> IF size > 0 THEN advanced ELSE cb,
                     out |-> read(cb.data, cb.start_pos, size)]
       ELSE [ok |-> TRUE, out |-> <<>>, cb |-> cb]

circlebuf_peek_front(cb, data, size) ==
  IF ~(size <= cb.size)
  THEN [ok |-> FALSE, out |-> <<>>, cb |-> cb]
  ELSE IF data
       THEN LET start_size == cb.capacity - cb.start_pos
            IN IF start_size < size
               THEN [ok |-> TRUE, cb |-> cb,
                     out |-> read(cb.data, cb.start_pos, start_size)
                             \o read(cb.data, 0, size - start_size)]
               ELSE [ok |-> TRUE, cb |-> cb,
                     out |-> read(cb.data, cb.start_pos, size)]
       ELSE [ok |-> TRUE, out |-> <<>>, cb |-> cb]

\* circlebuf_peek_back with the two copies of a wrapping range in each other's
\* place in the destination.
peek_back_swapped(cb, data, size) ==
  IF ~(size <= cb.size)
  THEN [ok |-> FALSE, out |-> <<>>, cb |-> cb]
  ELSE IF data
       THEN LET back_size == IF cb.end_pos # 0 THEN cb.end_pos ELSE cb.capacity
            IN IF back_size < size
               THEN LET front_size == size - back_size
                        new_end_pos == cb.capacity - front_size
                    IN [ok |-> TRUE, cb |-> cb,
                        out |-> read(cb.data, 0, back_size)
                                \o read(cb.data, new_end_pos, front_size)]
               ELSE [ok |-> TRUE, cb |-> cb,
                     out |-> read(cb.data, cb.end_pos - size, size)]
       ELSE [ok |-> TRUE, out |-> <<>>, cb |-> cb]

\* circlebuf_peek_back with its assert inside the test for a destination: a
\* null destination is never checked.
peek_back_assert_inside(cb, data, size) ==
  IF data
  THEN IF ~(size <= cb.size)
       THEN [ok |-> FALSE, out |-> <<>>, cb |-> cb]
       ELSE LET back_size == IF cb.end_pos # 0 THEN cb.end_pos ELSE cb.capacity
            IN IF back_size < size
               THEN LET front_size == size - back_size
                        new_end_pos == cb.capacity - front_size
                    IN [ok |-> TRUE, cb |-> cb,
                        out |-> read(cb.data, new_end_pos, front_size)
                                \o read(cb.data, 0, back_size)]
               ELSE [ok |-> TRUE, cb |-> cb,
                     out |-> read(cb.data, cb.end_pos - size, size)]
  ELSE [ok |-> TRUE, out |-> <<>>, cb |-> cb]

circlebuf_peek_back(cb, data, size) ==
  IF ~(size <= cb.size)
  THEN [ok |-> FALSE, out |-> <<>>, cb |-> cb]
  ELSE IF data
       THEN LET back_size == IF cb.end_pos # 0 THEN cb.end_pos ELSE cb.capacity
            IN IF back_size < size
               THEN LET front_size == size - back_size
                        new_end_pos == cb.capacity - front_size
                    IN [ok |-> TRUE, cb |-> cb,
                        out |-> read(cb.data, new_end_pos, front_size)
                                \o read(cb.data, 0, back_size)]
               ELSE [ok |-> TRUE, cb |-> cb,
                     out |-> read(cb.data, cb.end_pos - size, size)]
       ELSE [ok |-> TRUE, out |-> <<>>, cb |-> cb]

\* pop_front whose early return for an emptied buffer comes before size is
\* stored.
pop_front_tail_keeps_size(c, size) ==
  LET left == c.size - size
      start_pos == c.start_pos + size
  IN IF left = 0
     THEN [c EXCEPT !.start_pos = 0, !.end_pos = 0]
     ELSE [c EXCEPT !.size = left,
                    !.start_pos = IF start_pos >= c.capacity
                                  THEN start_pos - c.capacity
                                  ELSE start_pos]

\* pop_front with > for >= where start_pos wraps: start_pos may rest on
\* capacity.
pop_front_tail_wraps_late(c, size) ==
  LET left == c.size - size
      start_pos == c.start_pos + size
  IN IF left = 0
     THEN [c EXCEPT !.size = 0, !.start_pos = 0, !.end_pos = 0]
     ELSE [c EXCEPT !.size = left,
                    !.start_pos = IF start_pos > c.capacity
                                  THEN start_pos - c.capacity
                                  ELSE start_pos]

\* The rest of a pop once its peek has returned: c is the struct then.
pop_front_tail(c, size) ==
  LET left == c.size - size
      start_pos == c.start_pos + size
  IN IF left = 0
     THEN [c EXCEPT !.size = 0, !.start_pos = 0, !.end_pos = 0]
     ELSE [c EXCEPT !.size = left,
                    !.start_pos = IF start_pos >= c.capacity
                                  THEN start_pos - c.capacity
                                  ELSE start_pos]

circlebuf_pop_front(cb, data, size) ==
  LET peek == circlebuf_peek_front(cb, data, size)
  IN IF ~peek.ok
     THEN peek
     ELSE [ok |-> TRUE, out |-> peek.out, cb |-> pop_front_tail(peek.cb, size)]

\* pop_back without the rewind of an emptied buffer.
pop_back_tail_no_rewind(c, size) ==
  LET left == c.size - size
  IN [c EXCEPT !.size = left,
               !.end_pos = IF c.end_pos <= size
                           THEN c.capacity - (size - c.end_pos)
                           ELSE c.end_pos - size]

\* pop_back with < for <= where end_pos wraps: popping exactly the bytes that
\* sit at the start of the storage leaves end_pos at 0.
pop_back_tail_wraps_late(c, size) ==
  LET left == c.size - size
  IN IF left = 0
     THEN [c EXCEPT !.size = 0, !.start_pos = 0, !.end_pos = 0]
     ELSE [c EXCEPT !.size = left,
                    !.end_pos = IF c.end_pos < size
                                THEN c.capacity - (size - c.end_pos)
                                ELSE c.end_pos - size]

pop_back_tail(c, size) ==
  LET left == c.size - size
  IN IF left = 0
     THEN [c EXCEPT !.size = 0, !.start_pos = 0, !.end_pos = 0]
     ELSE [c EXCEPT !.size = left,
                    !.end_pos = IF c.end_pos <= size
                                THEN c.capacity - (size - c.end_pos)
                                ELSE c.end_pos - size]

circlebuf_pop_back(cb, data, size) ==
  LET peek == circlebuf_peek_back(cb, data, size)
  IN IF ~peek.ok
     THEN peek
     ELSE [ok |-> TRUE, out |-> peek.out, cb |-> pop_back_tail(peek.cb, size)]

\* The pointer circlebuf_data returns: NULL, or the storage at an offset.
NULL == [null |-> TRUE, offset |-> 0]

\* circlebuf_data with > for >= in its range test: idx = size is let through.
data_past_the_end(cb, idx) ==
  LET offset == cb.start_pos + idx
  IN IF idx > cb.size
     THEN NULL
     ELSE [null |-> FALSE,
           offset |-> IF offset >= cb.capacity THEN offset - cb.capacity ELSE offset]

circlebuf_data(cb, idx) ==
  LET offset == cb.start_pos + idx
  IN IF idx >= cb.size
     THEN NULL
     ELSE [null |-> FALSE,
           offset |-> IF offset >= cb.capacity THEN offset - cb.capacity ELSE offset]

(***************************************************************************)
(* The state: one circlebuf, and what a caller of it has seen.             *)
(*   cb      the struct                                                    *)
(*   status  "ok", or "aborted" once an assert has failed                  *)
(*   op      the last function called, arg its arguments (size, position,  *)
(*           data: whether the data pointer was non-null)                  *)
(*   out     the bytes the last peek or pop copied to its destination      *)
(*   pre     the capacity before the last call, and whether the stored     *)
(*           bytes wrapped around the end of the storage then              *)
(*   bytes   the byte sequence a caller expects the buffer to hold         *)
(*   want    the bytes a caller expects the last peek or pop to yield      *)
(*   net     bytes added (pushed, or appended by a growing place) minus    *)
(*           bytes popped since circlebuf_init                             *)
(*   put     the bytes the last push_back, push_front or place was given   *)
(*   ptr     the pointer the last circlebuf_data returned                  *)
(***************************************************************************)
VARIABLES cb, status, op, arg, out, pre, bytes, want, net, put, ptr

bufvars == <<cb, status, op, arg, out, pre, bytes, want, net, put, ptr>>

(***************************************************************************)
(* The state of a WAVSource, in groups that are checked one at a time.     *)
(*   m_audio_ts, m_ts_offset   the timestamps get_audio_sync reads;        *)
(*       sync: the argument and result of its last call                    *)
(*   m_tsmoothing, m_gravity   the settings get_gravity reads;             *)
(*       gravity: the argument and result of its last call                 *)
(*   m_fft_size   the FFT size; fft_setting: the size the last settings    *)
(*       update asked for; updated: whether update has run                 *)
(*   now, m_capture_ts, m_next_retry, m_retries, capture, feeding, waited  *)
(*       the clock and the audio capture with its retries                  *)
(*   m_mtx, pc, samples, subscribed   the lock and the threads under it    *)
(***************************************************************************)
VARIABLES m_audio_ts, m_ts_offset, sync,
          m_tsmoothing, m_gravity, gravity,
          m_fft_size, fft_setting, updated,
          now, m_capture_ts, m_next_retry, m_retries, capture, feeding, waited,
          m_mtx, pc, samples, subscribed

syncvars == <<m_audio_ts, m_ts_offset, sync>>
gravityvars == <<m_tsmoothing, m_gravity, gravity>>
fftvars == <<m_fft_size, fft_setting, updated>>
capturevars == <<now, m_capture_ts, m_next_retry, m_retries, capture, feeding, waited>>
lockvars == <<m_mtx, pc, samples, subscribed>>

srcvars == <<syncvars, gravityvars, fftvars, capturevars, lockvars>>

vars == <<bufvars, srcvars>>

NoCall == [called |-> FALSE, arg |-> 0, result |-> 0]

\* The members as their initialisers in the class leave them.
SyncInit == m_audio_ts = 0 /\ m_ts_offset = 0 /\ sync = NoCall
GravityInit == m_tsmoothing = "EXPONENTIAL" /\ m_gravity = 0 /\ gravity = NoCall
FftInit == m_fft_size = 0 /\ fft_setting = 0 /\ updated = FALSE
CaptureInit ==
  /\ now = 0
  /\ m_capture_ts = 0
  /\ m_next_retry = 0
  /\ m_retries = 0
  /\ capture = "active"
  /\ feeding = TRUE
  /\ waited = 0
LockInit ==
  /\ m_mtx = [owner |-> "none", count |-> 0]
  /\ pc = [tick |-> "idle", audio |-> "idle"]
  /\ samples = 0
  /\ subscribed = TRUE

\* The stored bytes run over the end of the storage and continue at offset 0.
Wrapped(c) == c.size > 0 /\ c.end_pos <= c.start_pos

Shape(c) == [capacity |-> c.capacity, wrapped |-> Wrapped(c)]

NoArg == [size |-> 0, position |-> 0, data |-> FALSE]

Zeros(n) == [i \in 1..n |-> 0]

\* What a caller expects of place: bytes [position, position + Len(data)) are
\* data, the sequence is padded with zeros up to position first if it is shorter.
PlaceBytes(s, position, data) ==
  LET end_point == position + Len(data)
      padded == IF end_point > Len(s) THEN s \o Zeros(end_point - Len(s)) ELSE s
  IN [i \in 1..Len(padded) |->
        IF position < i /\ i <= end_point THEN data[i - position] ELSE padded[i]]

\* The values the cells brealloc adds may hold when the storage grows from
\* cb.capacity to upto cells (no cell is added when upto <= cb.capacity).
Fresh(upto) == [cb.capacity..(upto - 1) -> Bytes]

\* The largest storage a call that needs required bytes may allocate.
Upto(required) ==
  IF required <= cb.capacity THEN cb.capacity ELSE Max(required, 2 * cb.capacity)

\* The model stops growing at MaxCap cells.
Fits(required) ==
  \/ required <= cb.capacity
  \/ required <= MaxCap /\ 2 * cb.capacity <= MaxCap

BufInit ==
  /\ cb = circlebuf_init
  /\ status = "ok"
  /\ op = "init"
  /\ arg = NoArg
  /\ out = <<>>
  /\ pre = Shape(circlebuf_init)
  /\ bytes = <<>>
  /\ want = <<>>
  /\ net = 0
  /\ put = <<>>
  /\ ptr = NULL

Init == BufInit /\ SyncInit /\ GravityInit /\ FftInit /\ CaptureInit /\ LockInit

\* A call that cannot fail: the struct becomes next, the caller's view follows;
\* added is the number of bytes the call stores beyond those already held.
Called(name, a, next, expected, added) ==
  /\ cb' = next
  /\ status' = "ok"
  /\ op' = name
  /\ arg' = a
  /\ out' = <<>>
  /\ pre' = Shape(cb)
  /\ bytes' = expected
  /\ want' = <<>>
  /\ net' = net + added
  /\ ptr' = NULL
  /\ UNCHANGED srcvars

\* A peek or pop: r is what the function returned, removed the number of bytes
\* it takes out of the buffer.  A failed assert aborts.
Copied(name, a, r, next, expected, wanted, removed) ==
  /\ cb' = next
  /\ status' = IF r.ok THEN "ok" ELSE "aborted"
  /\ op' = name
  /\ arg' = a
  /\ out' = r.out
  /\ pre' = Shape(cb)
  /\ bytes' = IF r.ok THEN expected ELSE bytes
  /\ want' = IF r.ok /\ a.data THEN wanted ELSE <<>>
  /\ net' = IF r.ok THEN net - removed ELSE net
  /\ put' = <<>>
  /\ ptr' = NULL
  /\ UNCHANGED srcvars

Free ==
  /\ status = "ok"
  /\ cb' = circlebuf_free(cb)
  /\ status' = "ok"
  /\ op' = "free"
  /\ arg' = NoArg
  /\ out' = <<>>
  /\ pre' = Shape(cb)
  /\ bytes' = <<>>
  /\ want' = <<>>
  /\ net' = 0
  /\ put' = <<>>
  /\ ptr' = NULL
  /\ UNCHANGED srcvars

Reserve ==
  /\ status = "ok"
  /\ \E capacity \in 0..MaxCap : \E fresh \in Fresh(capacity) :
       /\ Called("reserve", [NoArg EXCEPT !.size = capacity],
                 circlebuf_reserve(cb, capacity, fresh), bytes, 0)
       /\ put' = <<>>

PushBack ==
  /\ status = "ok"
  /\ \E data \in ByteSeqs(MaxLen) : \E fresh \in Fresh(Upto(cb.size + Len(data))) :
       /\ Fits(cb.size + Len(data))
       /\ Called("push_back", [NoArg EXCEPT !.size = Len(data), !.data = TRUE],
                 circlebuf_push_back(cb, data, fresh), bytes \o data, Len(data))
       /\ put' = data

PushFront ==
  /\ status = "ok"
  /\ \E data \in ByteSeqs(MaxLen) : \E fresh \in Fresh(Upto(cb.size + Len(data))) :
       /\ Fits(cb.size + Len(data))
       /\ Called("push_front", [NoArg EXCEPT !.size = Len(data), !.data = TRUE],
                 circlebuf_push_front(cb, data, fresh), data \o bytes, Len(data))
       /\ put' = data

PushBackZero ==
  /\ status = "ok"
  /\ \E size \in 0..MaxLen : \E fresh \in Fresh(Upto(cb.size + size)) :
       /\ Fits(cb.size + size)
       /\ Called("push_back_zero", [NoArg EXCEPT !.size = size],
                 circlebuf_push_back_zero(cb, size, fresh), bytes \o Zeros(size), size)
       /\ put' = <<>>

PushFrontZero ==
  /\ status = "ok"
  /\ \E size \in 0..MaxLen : \E fresh \in Fresh(Upto(cb.size + size)) :
       /\ Fits(cb.size + size)
       /\ Called("push_front_zero", [NoArg EXCEPT !.size = size],
                 circlebuf_push_front_zero(cb, size, fresh), Zeros(size) \o bytes, size)
       /\ put' = <<>>

Place ==
  /\ status = "ok"
  /\ \E position \in 0..MaxCap, data \in ByteSeqs(MaxLen) :
     \E fresh \in Fresh(Upto(position + Len(data))) :
       /\ Fits(Max(cb.size, position + Len(data)))
       /\ Called("place",
                 [size |-> Len(data), position |-> position, data |-> TRUE],
                 circlebuf_place(cb, position, data, fresh),
                 PlaceBytes(bytes, position, data),
                 Max(0, position + Len(data) - cb.size))
       /\ put' = data

PeekFront ==
  /\ status = "ok"
  /\ \E size \in 0..MaxLen, data \in BOOLEAN :
       LET r == circlebuf_peek_front(cb, data, size)
       IN Copied("peek_front", [NoArg EXCEPT !.size = size, !.data = data],
                 r, r.cb, bytes, SubSeq(bytes, 1, size), 0)

PeekBack ==
  /\ status = "ok"
  /\ \E size \in 0..MaxLen, data \in BOOLEAN :
       LET r == circlebuf_peek_back(cb, data, size)
       IN Copied("peek_back", [NoArg EXCEPT !.size = size, !.data = data],
                 r, r.cb, bytes, SubSeq(bytes, Len(bytes) - size + 1, Len(bytes)), 0)

PopFront ==
  /\ status = "ok"
  /\ \E size \in 0..MaxLen, data \in BOOLEAN :
       LET r == circlebuf_pop_front(cb, data, size)
       IN Copied("pop_front", [NoArg EXCEPT !.size = size, !.data = data],
                 r, r.cb, SubSeq(bytes, size + 1, Len(bytes)),
                 SubSeq(bytes, 1, size), size)

PopBack ==
  /\ status = "ok"
  /\ \E size \in 0..MaxLen, data \in BOOLEAN :
       LET r == circlebuf_pop_back(cb, data, size)
       IN Copied("pop_back", [NoArg EXCEPT !.size = size, !.data = data],
                 r, r.cb, SubSeq(bytes, 1, Len(bytes) - size),
                 SubSeq(bytes, Len(bytes) - size + 1, Len(bytes)), size)

\* circlebuf_data(cb, idx): the struct is only read.
DataAt ==
  /\ status = "ok"
  /\ \E idx \in 0..MaxCap :
       /\ ptr' = circlebuf_data(cb, idx)
       /\ op' = "data"
       /\ arg' = [NoArg EXCEPT !.position = idx]
       /\ out' = <<>>
       /\ pre' = Shape(cb)
       /\ put' = <<>>
       /\ want' = <<>>
       /\ UNCHANGED <<cb, status, bytes, net>>
       /\ UNCHANGED srcvars

Next ==
  \/ Free
  \/ Reserve
  \/ PushBack
  \/ PushFront
  \/ PushBackZero
  \/ PushFrontZero
  \/ Place
  \/ PeekFront
  \/ PeekBack
  \/ PopFront
  \/ PopBack
  \/ DataAt

Spec == Init /\ [][Next]_vars

\* The buffer under pushes and pops alone (and reserve, which stores nothing).
NextPushPop ==
  \/ Reserve
  \/ PushBack
  \/ PushFront
  \/ PushBackZero
  \/ PushFrontZero
  \/ PopFront
  \/ PopBack

SpecPushPop == Init /\ [][NextPushPop]_vars

(***************************************************************************)
(* WAVSource::get_audio_sync.  The timestamps are words of WordBits bits   *)
(* (64 in the source): uint64_t arithmetic is modulo Word, int64_t is the  *)
(* two's complement reading of a word.  Time is counted in units of 2 s,   *)
(* so that MAX_TS_DELTA, 16 s, stays below the largest int64_t as it does  *)
(* in the source.                                                          *)
(***************************************************************************)
WordBits == 5
Word == 2 ^ WordBits
UInt64 == 0..(Word - 1)
Int64 == (0 - Word \div 2)..(Word \div 2 - 1)

MAX_TS_DELTA == 8

Min(a, b) == IF a < b THEN a ELSE b

\* Conversion of an integer to uint64_t and to int64_t.
to_uint64(x) == x % Word
to_int64(x) == IF x % Word >= Word \div 2 THEN (x % Word) - Word ELSE x % Word

\* get_audio_sync without the std::min against MAX_TS_DELTA.
get_audio_sync_unclamped(audio, offset, ts) ==
  LET audio_ts == to_uint64(audio + offset)
      delta == to_uint64(Max(audio_ts, ts) - Min(audio_ts, ts))
  IN IF audio_ts < ts THEN to_int64(0 - to_int64(delta)) ELSE to_int64(delta)

\* audio is m_audio_ts, offset m_ts_offset: their sum is taken in uint64_t.
get_audio_sync(audio, offset, ts) ==
  LET audio_ts == to_uint64(audio + offset)
      delta == Min(to_uint64(Max(audio_ts, ts) - Min(audio_ts, ts)), MAX_TS_DELTA)
  IN IF audio_ts < ts THEN to_int64(0 - to_int64(delta)) ELSE to_int64(delta)

\* Any timestamps the capture may have left in the members.
InitSync ==
  /\ BufInit /\ GravityInit /\ FftInit /\ CaptureInit /\ LockInit
  /\ m_audio_ts \in UInt64
  /\ m_ts_offset \in Int64
  /\ sync = NoCall

GetAudioSync ==
  /\ \E ts \in UInt64 :
       sync' = [called |-> TRUE, arg |-> ts,
                result |-> get_audio_sync(m_audio_ts, m_ts_offset, ts)]
  /\ UNCHANGED <<m_audio_ts, m_ts_offset>>
  /\ UNCHANGED <<bufvars, gravityvars, fftvars, capturevars, lockvars>>

NextSync == GetAudioSync

SpecSync == InitSync /\ [][NextSync]_vars

(***************************************************************************)
(* WAVSource::get_gravity.  The floats are counted in steps: m_gravity in  *)
(* steps of the slider, seconds in frames.  The result is a number, or the *)
(* value of std::exp(-seconds / lerp(lo, hi, m_gravity)), kept as the      *)
(* expression it is.                                                       *)
(***************************************************************************)
MaxGravity == 4
MaxSeconds == 5

TSmoothingMode == {"NONE", "EXPONENTIAL", "TVEXPONENTIAL"}

Float(x) == [exp |-> FALSE, value |-> x, seconds |-> 0]

\* std::exp(-seconds / lerp(lo, hi, g)).
Exp(seconds, g) == [exp |-> TRUE, value |-> g, seconds |-> seconds]

\* get_gravity without the test for TSmoothingMode::NONE.
get_gravity_ignores_none(tsmoothing, g, seconds) ==
  IF g <= 0
  THEN Float(0)
  ELSE IF tsmoothing = "TVEXPONENTIAL" THEN Exp(seconds, g) ELSE Float(g)

\* tsmoothing is m_tsmoothing, g is m_gravity.
get_gravity(tsmoothing, g, seconds) ==
  IF tsmoothing = "NONE" \/ g <= 0
  THEN Float(0)
  ELSE IF tsmoothing = "TVEXPONENTIAL" THEN Exp(seconds, g) ELSE Float(g)

\* Any smoothing mode and gravity the settings may hold.
InitGravity ==
  /\ BufInit /\ SyncInit /\ FftInit /\ CaptureInit /\ LockInit
  /\ m_tsmoothing \in TSmoothingMode
  /\ m_gravity \in (0 - 1)..MaxGravity
  /\ gravity = NoCall

GetGravity ==
  /\ \E seconds \in 0..MaxSeconds :
       gravity' = [called |-> TRUE, arg |-> seconds,
                   result |-> get_gravity(m_tsmoothing, m_gravity, seconds)]
  /\ UNCHANGED <<m_tsmoothing, m_gravity>>
  /\ UNCHANGED <<bufvars, syncvars, fftvars, capturevars, lockvars>>

NextGravity == GetGravity

SpecGravity == InitGravity /\ [][NextGravity]_vars

(***************************************************************************)
(* WAVSource::m_fft_size and the settings update.  The member starts at 0  *)
(* (its initialiser); update() takes the FFT size of the settings and      *)
(* corrects it by rounding to the nearest valid value, a nonzero multiple  *)
(* of the alignment.                                                       *)
(***************************************************************************)
MaxFftSetting == 128
FFT_ALIGN == 16

\* The rounding without the smallest valid size.
align_fft_size_allows_zero(requested) ==
  ((requested + FFT_ALIGN \div 2) \div FFT_ALIGN) * FFT_ALIGN

\* The nearest nonzero multiple of FFT_ALIGN.
align_fft_size(requested) ==
  Max(FFT_ALIGN, ((requested + FFT_ALIGN \div 2) \div FFT_ALIGN) * FFT_ALIGN)

\* update(settings), as far as the FFT size goes.
Update ==
  /\ \E requested \in 0..MaxFftSetting :
       /\ fft_setting' = requested
       /\ m_fft_size' = align_fft_size(requested)
  /\ updated' = TRUE
  /\ UNCHANGED <<bufvars, syncvars, gravityvars, capturevars, lockvars>>

NextFft == Update

SpecFft == Init /\ [][NextFft]_vars

(***************************************************************************)
(* Capture loss and retry.  Time is counted in units of 250 ms: now is the *)
(* clock (os_gettime_ns), m_capture_ts the clock at the last callback,     *)
(* m_next_retry the cooldown left.  feeding says whether the host delivers *)
(* callbacks; waited is the time gone by since the capture was lost or a   *)
(* recapture was last attempted.  cb is a capture buffer.                  *)
(***************************************************************************)
MaxTime == 24
MaxTick == 3
CAPTURE_TIMEOUT == 2
RETRY_DELAY == 8

CaptureState ==
  [capture |-> capture, m_capture_ts |-> m_capture_ts,
   m_next_retry |-> m_next_retry, m_retries |-> m_retries]

\* A check that leaves the cooldown expired after an attempt.
check_audio_capture_keeps_retrying(s, seconds, t, available) ==
  IF s.capture = "active"
  THEN IF t - s.m_capture_ts > CAPTURE_TIMEOUT
       THEN [s EXCEPT !.capture = "lost", !.m_next_retry = RETRY_DELAY]
       ELSE s
  ELSE IF s.m_next_retry - seconds <= 0
       THEN [capture |-> IF available THEN "active" ELSE "lost",
             m_capture_ts |-> IF available THEN t ELSE s.m_capture_ts,
             m_next_retry |-> s.m_next_retry - seconds,
             m_retries |-> s.m_retries + 1]
       ELSE [s EXCEPT !.m_next_retry = @ - seconds]

\* check_audio_capture at clock t, seconds after the last tick: the capture
\* is lost when no callback arrived within CAPTURE_TIMEOUT; a lost capture is
\* retried (recapture_audio) when the cooldown has run out, and the cooldown
\* starts again.  available: the retried capture delivers callbacks.
check_audio_capture(s, seconds, t, available) ==
  IF s.capture = "active"
  THEN IF t - s.m_capture_ts > CAPTURE_TIMEOUT
       THEN [s EXCEPT !.capture = "lost", !.m_next_retry = RETRY_DELAY]
       ELSE s
  ELSE IF s.m_next_retry - seconds <= 0
       THEN [capture |-> IF available THEN "active" ELSE "lost",
             m_capture_ts |-> IF available THEN t ELSE s.m_capture_ts,
             m_next_retry |-> RETRY_DELAY,
             m_retries |-> s.m_retries + 1]
       ELSE [s EXCEPT !.m_next_retry = @ - seconds]

\* The host stops delivering capture callbacks.
StopCallbacks ==
  /\ feeding
  /\ feeding' = FALSE
  /\ UNCHANGED <<now, m_capture_ts, m_next_retry, m_retries, capture, waited>>
  /\ UNCHANGED <<bufvars, syncvars, gravityvars, fftvars, lockvars>>

\* The host is able to deliver capture callbacks again.
ResumeCallbacks ==
  /\ ~feeding
  /\ feeding' = TRUE
  /\ UNCHANGED <<now, m_capture_ts, m_next_retry, m_retries, capture, waited>>
  /\ UNCHANGED <<bufvars, syncvars, gravityvars, fftvars, lockvars>>

\* capture_audio: the callback stamps its arrival and appends a sample, which
\* is dropped once the bounded buffer is full.
CaptureAudio ==
  /\ feeding
  /\ capture = "active"
  /\ m_capture_ts' = now
  /\ \E b \in Bytes : \E fresh \in Fresh(Upto(cb.size + 1)) :
       IF Fits(cb.size + 1)
       THEN /\ cb' = circlebuf_push_back(cb, <<b>>, fresh)
            /\ bytes' = bytes \o <<b>>
       ELSE UNCHANGED <<cb, bytes>>
  /\ UNCHANGED <<status, op, arg, out, pre, want, net, put, ptr>>
  /\ UNCHANGED <<now, m_next_retry, m_retries, capture, feeding, waited>>
  /\ UNCHANGED <<syncvars, gravityvars, fftvars, lockvars>>

\* tick(seconds): the clock advances and check_audio_capture runs; a capture
\* found lost has its buffers freed (free_bufs).
Tick ==
  /\ \E seconds \in 1..MaxTick :
       /\ now + seconds <= MaxTime
       /\ LET s == check_audio_capture(CaptureState, seconds, now + seconds, feeding)
              lost == capture = "active" /\ s.capture = "lost"
          IN /\ now' = now + seconds
             /\ capture' = s.capture
             /\ m_capture_ts' = s.m_capture_ts
             /\ m_next_retry' = s.m_next_retry
             /\ m_retries' = s.m_retries
             /\ waited' = IF capture = "lost" /\ s.m_retries = m_retries
                          THEN waited + seconds
                          ELSE 0
             /\ cb' = IF lost THEN circlebuf_free(cb) ELSE cb
             /\ bytes' = IF lost THEN <<>> ELSE bytes
  /\ UNCHANGED <<status, op, arg, out, pre, want, net, put, ptr>>
  /\ UNCHANGED feeding
  /\ UNCHANGED <<syncvars, gravityvars, fftvars, lockvars>>

NextCapture == StopCallbacks \/ ResumeCallbacks \/ CaptureAudio \/ Tick

SpecCapture == Init /\ [][NextCapture]_vars

(***************************************************************************)
(* The lock m_mtx, a std::recursive_timed_mutex, and the two threads that  *)
(* take it: the thread of tick, which also releases and recaptures the     *)
(* audio capture, and the audio thread, which runs the capture callback.   *)
(* Releasing the capture makes the host flush the callback on the thread   *)
(* that releases.  samples counts the samples in the capture buffers;      *)
(* subscribed says whether the callback is registered with the host.       *)
(***************************************************************************)
MaxSamples == 7

\* A mutex that its owner cannot take again.
can_lock_plain(mtx, thread) == mtx.owner = "none"

\* A recursive mutex is free for the thread that owns it.
can_lock(mtx, thread) == mtx.owner = "none" \/ mtx.owner = thread

lock(mtx, thread) == [owner |-> thread, count |-> mtx.count + 1]

unlock(mtx) ==
  IF mtx.count = 1
  THEN [owner |-> "none", count |-> 0]
  ELSE [mtx EXCEPT !.count = @ - 1]

\* The callback appends a sample; the buffers are bounded.
capture_sample(n) == Min(n + 1, MaxSamples)

\* tick takes the lock.
TickLock ==
  /\ pc.tick = "idle"
  /\ can_lock(m_mtx, "tick")
  /\ m_mtx' = lock(m_mtx, "tick")
  /\ pc' = [pc EXCEPT !.tick = "locked"]
  /\ UNCHANGED <<samples, subscribed>>
  /\ UNCHANGED <<bufvars, syncvars, gravityvars, fftvars, capturevars>>

\* tick consumes the buffered samples.
TickDrain ==
  /\ pc.tick = "locked"
  /\ samples > 0
  /\ samples' = 0
  /\ UNCHANGED <<m_mtx, pc, subscribed>>
  /\ UNCHANGED <<bufvars, syncvars, gravityvars, fftvars, capturevars>>

\* tick returns.
TickUnlock ==
  /\ pc.tick = "locked"
  /\ m_mtx' = unlock(m_mtx)
  /\ pc' = [pc EXCEPT !.tick = "idle"]
  /\ UNCHANGED <<samples, subscribed>>
  /\ UNCHANGED <<bufvars, syncvars, gravityvars, fftvars, capturevars>>

\* release_audio_capture, under the lock: the callback is removed and the host
\* flushes it on this thread.
ReleaseAudioCapture ==
  /\ pc.tick = "locked"
  /\ subscribed
  /\ subscribed' = FALSE
  /\ pc' = [pc EXCEPT !.tick = "flushing"]
  /\ UNCHANGED <<m_mtx, samples>>
  /\ UNCHANGED <<bufvars, syncvars, gravityvars, fftvars, capturevars>>

\* The flushed callback takes the lock its thread already holds.
FlushLock ==
  /\ pc.tick = "flushing"
  /\ can_lock(m_mtx, "tick")
  /\ m_mtx' = lock(m_mtx, "tick")
  /\ pc' = [pc EXCEPT !.tick = "callback"]
  /\ UNCHANGED <<samples, subscribed>>
  /\ UNCHANGED <<bufvars, syncvars, gravityvars, fftvars, capturevars>>

\* The flushed callback appends its samples and returns into
\* release_audio_capture.
FlushCapture ==
  /\ pc.tick = "callback"
  /\ samples' = capture_sample(samples)
  /\ m_mtx' = unlock(m_mtx)
  /\ pc' = [pc EXCEPT !.tick = "locked"]
  /\ UNCHANGED subscribed
  /\ UNCHANGED <<bufvars, syncvars, gravityvars, fftvars, capturevars>>

\* recapture_audio, under the lock: the callback is registered again.
RecaptureAudio ==
  /\ pc.tick = "locked"
  /\ ~subscribed
  /\ subscribed' = TRUE
  /\ UNCHANGED <<m_mtx, pc, samples>>
  /\ UNCHANGED <<bufvars, syncvars, gravityvars, fftvars, capturevars>>

\* The host calls the capture callback on the audio thread.
AudioCall ==
  /\ pc.audio = "idle"
  /\ subscribed
  /\ pc' = [pc EXCEPT !.audio = "waiting"]
  /\ UNCHANGED <<m_mtx, samples, subscribed>>
  /\ UNCHANGED <<bufvars, syncvars, gravityvars, fftvars, capturevars>>

\* The callback takes the lock.
AudioLock ==
  /\ pc.audio = "waiting"
  /\ can_lock(m_mtx, "audio")
  /\ m_mtx' = lock(m_mtx, "audio")
  /\ pc' = [pc EXCEPT !.audio = "capturing"]
  /\ UNCHANGED <<samples, subscribed>>
  /\ UNCHANGED <<bufvars, syncvars, gravityvars, fftvars, capturevars>>

\* The callback appends its samples and returns.
AudioCapture ==
  /\ pc.audio = "capturing"
  /\ samples' = capture_sample(samples)
  /\ m_mtx' = unlock(m_mtx)
  /\ pc' = [pc EXCEPT !.audio = "idle"]
  /\ UNCHANGED subscribed
  /\ UNCHANGED <<bufvars, syncvars, gravityvars, fftvars, capturevars>>

NextLock ==
  \/ TickLock
  \/ TickDrain
  \/ TickUnlock
  \/ ReleaseAudioCapture
  \/ FlushLock
  \/ FlushCapture
  \/ RecaptureAudio
  \/ AudioCall
  \/ AudioLock
  \/ AudioCapture

SpecLock == Init /\ [][NextLock]_vars

\* The bytes the buffer holds, read from the front.
Logical(c) == [i \in 1..c.size |-> c.data[(c.start_pos + i - 1) % c.capacity]]

TypeOK ==
  /\ cb.capacity \in 0..MaxCap
  /\ DOMAIN cb.data = 0..(cb.capacity - 1)
  /\ \A i \in DOMAIN cb.data : cb.data[i] \in Bytes
  /\ status \in {"ok", "aborted"}

(***************************************************************************)
(* The claims.                                                             *)
(***************************************************************************)

Pushes == {"push_back", "push_front", "push_back_zero", "push_front_zero"}
Pops == {"pop_front", "pop_back"}
Peeks == {"peek_front", "peek_back"}

\* C1: the buffer behaves as a byte sequence.  After every call the bytes read
\* from the front are the sequence a caller expects (push_back appends,
\* push_front prepends, pops remove), and a pop has copied out exactly the
\* first (pop_front) or last (pop_back) bytes of that sequence, in order.
C1_ByteSequence ==
  /\ Logical(cb) = bytes
  /\ (op \in Pops /\ status = "ok" /\ arg.data) => out = want

\* A pop_back of two different bytes from a buffer that wrapped.
C1_Witness ==
  /\ op = "pop_back" /\ status = "ok" /\ arg.data
  /\ pre.wrapped
  /\ Len(out) = 2 /\ out[1] # out[2]
  /\ cb.size > 0

\* C2: under pushes and pops, size is the bytes pushed minus the bytes popped.
C2_SizeIsPushedMinusPopped == cb.size = net

\* A pop that left bytes behind in a buffer that wrapped.
C2_Witness ==
  /\ op = "pop_front" /\ status = "ok" /\ arg.size > 0
  /\ pre.wrapped
  /\ net > 0

\* C3: size <= capacity whenever a call has returned.
C3_SizeWithinCapacity == cb.size <= cb.capacity

\* A place that had to grow the storage, and filled it.
C3_Witness ==
  /\ op = "place"
  /\ cb.capacity > pre.capacity /\ pre.capacity > 0
  /\ cb.size = cb.capacity

\* C4: an empty buffer is rewound, start_pos = end_pos = 0.
C4_EmptyIsRewound == cb.size = 0 => (cb.start_pos = 0 /\ cb.end_pos = 0)

\* A pop_back that removed the last bytes of a buffer that wrapped.
C4_Witness ==
  /\ op = "pop_back" /\ status = "ok"
  /\ pre.wrapped
  /\ cb.size = 0 /\ cb.capacity > 0

\* C5 as claimed: with capacity > 0, start_pos and end_pos are both below
\* capacity.
C5_Original ==
  cb.capacity > 0 =>
    (0 <= cb.start_pos /\ cb.start_pos < cb.capacity
     /\ 0 <= cb.end_pos /\ cb.end_pos < cb.capacity)

\* C5, amended: with capacity > 0, start_pos is below capacity and end_pos is
\* at most capacity (it is capacity itself when the last stored byte sits in
\* the last cell of the storage).
C5_PositionsWithinCapacity ==
  cb.capacity > 0 =>
    (0 <= cb.start_pos /\ cb.start_pos < cb.capacity
     /\ 0 <= cb.end_pos /\ cb.end_pos <= cb.capacity)

\* A push_back that ended on the last cell of the storage.
C5_Witness ==
  /\ op = "push_back" /\ arg.size > 0
  /\ cb.capacity > 0
  /\ cb.end_pos = cb.capacity

\* C6: capacity never shrinks.  No call but circlebuf_free lowers capacity; a
\* pop, a peek, and a reserve that asks for no more than the storage has, leave
\* it as it was.
C6_CapacityNeverShrinks ==
  op # "free" =>
    /\ cb.capacity >= pre.capacity
    /\ op \in Pops \cup Peeks => cb.capacity = pre.capacity
    /\ (op = "reserve" /\ arg.size <= pre.capacity) => cb.capacity = pre.capacity

\* A reserve for less than the storage of a buffer that holds bytes.
C6_Witness ==
  /\ op = "reserve"
  /\ arg.size < pre.capacity
  /\ cb.capacity = pre.capacity
  /\ cb.size > 0

\* C7: growth keeps the stored bytes in order.  Across every call that raises
\* capacity: reserve leaves the byte sequence as it was; a push at the back
\* keeps it as the head of the new sequence, a push at the front as its tail;
\* a place keeps every byte before the position it writes at.
C7_GrowthKeepsBytes ==
  [][cb'.capacity > cb.capacity =>
       /\ op' = "reserve" => Logical(cb') = Logical(cb)
       /\ op' \in {"push_back", "push_back_zero"} =>
            SubSeq(Logical(cb'), 1, cb.size) = Logical(cb)
       /\ op' \in {"push_front", "push_front_zero"} =>
            SubSeq(Logical(cb'), cb'.size - cb.size + 1, cb'.size) = Logical(cb)
       /\ op' = "place" =>
            SubSeq(Logical(cb'), 1, Min(arg'.position, cb.size))
              = SubSeq(Logical(cb), 1, Min(arg'.position, cb.size))]_vars

\* A push_back that grew a full buffer whose bytes wrapped (end_pos = start_pos
\* before the call), the bytes being told apart by their values.
C7_Witness ==
  /\ op = "push_back" /\ arg.size > 0
  /\ pre.wrapped
  /\ cb.capacity > pre.capacity
  /\ cb.size = pre.capacity + arg.size
  /\ bytes[1] # bytes[2]

\* The size a push or place needs the storage to have.
Required(c, name, a) ==
  IF name = "place" THEN Max(c.size, a.position + a.size) ELSE c.size + a.size

\* C8: a push or place that needs more than capacity makes capacity the larger
\* of twice the old capacity and the size needed; one that fits leaves it.
C8_GrowthDoublesOrFits ==
  [][op' \in Pushes \cup {"place"} =>
       LET required == Required(cb, op', arg')
       IN cb'.capacity = IF required > cb.capacity
                         THEN Max(2 * cb.capacity, required)
                         ELSE cb.capacity]_vars

\* A push_back onto a storage that had cells, grown to exactly the size needed
\* because that is more than twice the old capacity.
C8_Witness ==
  /\ op = "push_back"
  /\ pre.capacity > 0
  /\ cb.capacity > 2 * pre.capacity
  /\ cb.capacity = cb.size

\* C9: a peek or pop of more than size fails its assert, with a null
\* destination too, and leaves every field of the buffer as it was; a peek or
\* pop of at most size does not fail; a push or place never fails.
C9_AssertBeforeModify ==
  [][/\ op' \in Peeks \cup Pops =>
          /\ (status' = "aborted") <=> (arg'.size > cb.size)
          /\ status' = "aborted" => cb' = cb
     /\ op' \in Pushes \cup {"place"} => status' = "ok"]_vars

\* A pop_back with a null destination of more bytes than the buffer held.
C9_Witness ==
  /\ status = "aborted"
  /\ op = "pop_back"
  /\ ~arg.data
  /\ arg.size > cb.size /\ cb.size > 0

\* C10: a peek of at most size copies out what the pop of the same size would
\* return there, the first (peek_front) or last (peek_back) bytes stored, and
\* changes no field of the buffer.
C10_PeekDoesNotConsume ==
  [][(op' \in Peeks /\ status' = "ok") =>
       LET n == arg'.size
           pop == IF op' = "peek_front"
                  THEN circlebuf_pop_front(cb, arg'.data, n)
                  ELSE circlebuf_pop_back(cb, arg'.data, n)
           stored == Logical(cb)
       IN /\ cb' = cb
          /\ out' = pop.out
          /\ arg'.data =>
               out' = IF op' = "peek_front"
                      THEN SubSeq(stored, 1, n)
                      ELSE SubSeq(stored, cb.size - n + 1, cb.size)]_vars

\* A peek_back of two different bytes, the first read from the end of the
\* storage and the second from its start.
C10_Witness ==
  /\ op = "peek_back" /\ status = "ok" /\ arg.data
  /\ Wrapped(cb)
  /\ arg.size = 2 /\ cb.end_pos = 1
  /\ out[1] # out[2]

\* C11: place overwrites bytes [position, position + n) with its data and
\* changes no other byte stored before.  If position + n is beyond the old
\* size, size becomes position + n and every byte from the old size up to
\* position reads as zero; if not, size, start_pos, end_pos and capacity stay
\* as they were.
C11_PlaceOverwrites ==
  [][op' = "place" =>
       LET position == arg'.position
           end_point == position + arg'.size
           old == Logical(cb)
           new == Logical(cb')
       IN /\ cb'.size = Max(cb.size, end_point)
          /\ \A i \in 1..cb'.size :
               new[i] = IF position < i /\ i <= end_point
                        THEN put'[i - position]
                        ELSE IF i <= cb.size THEN old[i] ELSE 0
          /\ end_point <= cb.size =>
               /\ cb'.start_pos = cb.start_pos
               /\ cb'.end_pos = cb.end_pos
               /\ cb'.capacity = cb.capacity]_vars

\* A place of a non-zero byte beyond the end of a buffer whose bytes wrapped,
\* which grew the storage and left a gap before the byte.
C11_Witness ==
  /\ op = "place"
  /\ pre.wrapped
  /\ cb.capacity > pre.capacity
  /\ arg.position > pre.capacity
  /\ arg.size > 0 /\ put[1] = 1

\* C12: circlebuf_data(idx) returns NULL exactly when idx >= size; otherwise
\* it returns the storage at offset (start_pos + idx) mod capacity, where the
\* byte is that pop_front would return at position idx.  It changes nothing.
C12_DataAtIndex ==
  [][op' = "data" =>
       LET idx == arg'.position
       IN /\ cb' = cb
          /\ ptr'.null <=> idx >= cb.size
          /\ ~ptr'.null =>
               /\ ptr'.offset = (cb.start_pos + idx) % cb.capacity
               /\ cb.data[ptr'.offset]
                    = circlebuf_pop_front(cb, TRUE, idx + 1).out[idx + 1]]_vars

\* A pointer to a byte that sits before start_pos in the storage.
C12_Witness ==
  /\ op = "data"
  /\ ~ptr.null
  /\ arg.position > 0
  /\ ptr.offset < cb.start_pos

\* What brealloc's new cells hold in the push C19 compares with; only the bytes
\* stored are compared.
ZeroFresh == [i \in 0..(2 * MaxCap) |-> 0]

\* C19: a zero push leaves the size, start_pos, end_pos, capacity and byte
\* sequence that the push of as many zero bytes at the same end leaves.
C19_ZeroPushIsPushOfZeros ==
  [][op' \in {"push_back_zero", "push_front_zero"} =>
       LET same == IF op' = "push_back_zero"
                   THEN circlebuf_push_back(cb, Zeros(arg'.size), ZeroFresh)
                   ELSE circlebuf_push_front(cb, Zeros(arg'.size), ZeroFresh)
       IN /\ cb'.size = same.size
          /\ cb'.start_pos = same.start_pos
          /\ cb'.end_pos = same.end_pos
          /\ cb'.capacity = same.capacity
          /\ Logical(cb') = Logical(same)]_vars

\* A push_front_zero of two bytes that grew the storage and put one zero at
\* its start and one at its end, in front of a non-zero byte.
C19_Witness ==
  /\ op = "push_front_zero" /\ arg.size = 2
  /\ cb.capacity > pre.capacity
  /\ cb.start_pos = cb.capacity - 1
  /\ cb.size = 3 /\ bytes[3] = 1

\* C20: with size > 0, start_pos < capacity, 1 <= end_pos <= capacity and
\* start_pos + size = end_pos modulo capacity.  So the branch of peek_back that
\* does not wrap never reads from below offset 0, and no call reads or writes
\* outside the storage.
C20_PositionsConsistent ==
  /\ cb.size > 0 =>
       /\ cb.start_pos < cb.capacity
       /\ 1 <= cb.end_pos /\ cb.end_pos <= cb.capacity
       /\ (cb.start_pos + cb.size) % cb.capacity = cb.end_pos % cb.capacity
  /\ \A n \in 0..cb.size :
       LET back_size == IF cb.end_pos # 0 THEN cb.end_pos ELSE cb.capacity
       IN back_size >= n => cb.end_pos - n >= 0
  /\ DOMAIN cb.data = 0..(cb.capacity - 1)
  /\ \A i \in DOMAIN cb.data : cb.data[i] # Wild
  /\ \A i \in 1..Len(out) : out[i] # Wild

\* A peek_back, in a buffer whose bytes wrap, of exactly the bytes that sit at
\* the start of the storage: it reads from offset end_pos - size = 0.
C20_Witness ==
  /\ op = "peek_back" /\ status = "ok" /\ arg.data
  /\ Wrapped(cb)
  /\ arg.size > 0 /\ arg.size = cb.end_pos

\* C13: the result of get_audio_sync is never further from 0 than
\* MAX_TS_DELTA (16 s).
C13_SyncIsClamped ==
  sync.called => (0 - MAX_TS_DELTA <= sync.result /\ sync.result <= MAX_TS_DELTA)

\* A call with a negative offset and the audio more than 16 s behind the given
\* time: the result is the lower limit.
C13_Witness ==
  /\ sync.called
  /\ m_ts_offset < 0
  /\ m_audio_ts + m_ts_offset >= 0
  /\ sync.arg - (m_audio_ts + m_ts_offset) > MAX_TS_DELTA
  /\ sync.result = 0 - MAX_TS_DELTA

\* x limited to [-MAX_TS_DELTA, MAX_TS_DELTA].
Clamped(x) == Max(0 - MAX_TS_DELTA, Min(x, MAX_TS_DELTA))

\* C14: the result of get_audio_sync(ts) is (m_audio_ts + m_ts_offset) - ts,
\* taken over the integers and limited to [-16 s, 16 s]: negative exactly when
\* m_audio_ts + m_ts_offset is earlier than ts, zero when they are equal.
C14_SignedDelta ==
  sync.called =>
    LET audio_ts == m_audio_ts + m_ts_offset
    IN /\ sync.result = Clamped(audio_ts - sync.arg)
       /\ sync.result < 0 <=> audio_ts < sync.arg
       /\ sync.result = 0 <=> audio_ts = sync.arg

\* C18: get_gravity returns 0 when the mode is NONE or the gravity setting is
\* <= 0, whatever the seconds; in EXPONENTIAL mode with gravity > 0 it returns
\* the gravity setting, whatever the seconds; only in TVEXPONENTIAL mode with
\* gravity > 0 is the result the exponential of the seconds given.
C18_GravityByMode ==
  gravity.called =>
    /\ (m_tsmoothing = "NONE" \/ m_gravity <= 0) => gravity.result = Float(0)
    /\ (m_tsmoothing = "EXPONENTIAL" /\ m_gravity > 0) =>
         gravity.result = Float(m_gravity)
    /\ gravity.result.exp <=> (m_tsmoothing = "TVEXPONENTIAL" /\ m_gravity > 0)
    /\ gravity.result.exp => gravity.result = Exp(gravity.arg, m_gravity)

\* A call in EXPONENTIAL mode, gravity > 0, with seconds that are not 0.
C18_Witness ==
  /\ gravity.called
  /\ m_tsmoothing = "EXPONENTIAL"
  /\ m_gravity > 0
  /\ gravity.arg > 0
  /\ gravity.result = Float(m_gravity)

\* C17 as stated: m_fft_size is a nonzero multiple of 16 in every state from
\* construction onward.  The constructed state, m_fft_size = 0, violates it.
C17_Original ==
  m_fft_size # 0 /\ m_fft_size % FFT_ALIGN = 0

\* C17, amended: m_fft_size is 0 from construction until the first settings
\* update, and a nonzero multiple of 16 after any sequence of one or more
\* settings updates.
C17_FftSizeAligned ==
  /\ m_fft_size % FFT_ALIGN = 0
  /\ updated <=> m_fft_size # 0

\* An update whose setting is not aligned and lies above the smallest size.
C17_Witness ==
  /\ updated
  /\ fft_setting % FFT_ALIGN # 0
  /\ m_fft_size > FFT_ALIGN

\* C15: a tick that finds more than CAPTURE_TIMEOUT (500 ms) gone by since the
\* last callback reports the capture lost and frees the capture buffers; a
\* tick within the timeout does not.  While the capture is lost, a tick
\* attempts a recapture exactly when RETRY_DELAY (2 s) has gone by since the
\* loss or the last attempt: never earlier, and once per cooldown.
C15_LossAndRetry ==
  [][now' # now =>
       /\ (capture = "active" /\ now' - m_capture_ts > CAPTURE_TIMEOUT) =>
            /\ capture' = "lost"
            /\ cb' = circlebuf_init
            /\ m_retries' = m_retries
       /\ (capture = "active" /\ now' - m_capture_ts < CAPTURE_TIMEOUT) =>
            capture' = "active" /\ cb' = cb
       /\ m_retries' \in {m_retries, m_retries + 1}
       /\ m_retries' = m_retries + 1 <=>
            capture = "lost" /\ waited + (now' - now) >= RETRY_DELAY]_vars

\* Callbacks arrived and then stopped; the capture was lost and two
\* recaptures have been attempted, one per cooldown.
C15_Witness ==
  /\ m_capture_ts > 0
  /\ capture = "lost"
  /\ cb = circlebuf_init
  /\ m_retries = 2

\* C16: the callback flushed on the thread that releases the capture, which
\* holds the lock, can take the lock again, and some step is always possible
\* (no deadlock); the callback on the audio thread is never inside its buffer
\* operations while the thread of tick is inside its own.
C16_ReentrantAndExclusive ==
  /\ pc.tick = "flushing" => m_mtx.owner = "tick" /\ ENABLED FlushLock
  /\ ENABLED NextLock
  /\ ~(pc.audio = "capturing" /\ pc.tick # "idle")
  /\ pc.tick # "idle" => m_mtx.owner = "tick"
  /\ pc.audio = "capturing" => m_mtx.owner = "audio"

\* The flushed callback holds the lock a second time on the thread of tick,
\* while a callback on the audio thread waits for it.
C16_Witness ==
  /\ pc.tick = "callback"
  /\ m_mtx = [owner |-> "tick", count |-> 2]
  /\ pc.audio = "waiting"

\* The pushes, pops and peeks, which take a size.
SizedOps ==
  {"push_back", "push_front", "push_back_zero", "push_front_zero",
   "pop_front", "pop_back", "peek_front", "peek_back"}

\* C21: from any reachable buffer state, a push, zero push, pop or peek of
\* size 0 leaves size, start_pos, end_pos, capacity and the logical contents
\* as they were, and does not fail the size assert.
C21_ZeroLengthIsNoOp ==
  [][(op' \in SizedOps /\ arg'.size = 0) =>
       /\ status' = "ok"
       /\ cb'.size = cb.size
       /\ cb'.start_pos = cb.start_pos
       /\ cb'.end_pos = cb.end_pos
       /\ cb'.capacity = cb.capacity
       /\ Logical(cb') = Logical(cb)
       /\ bytes' = bytes]_vars

\* A push_back of no bytes onto a full buffer whose end_pos is the capacity.
C21_Witness ==
  /\ op = "push_back"
  /\ arg.size = 0
  /\ status = "ok"
  /\ cb.capacity > 0
  /\ cb.size = cb.capacity
  /\ cb.end_pos = cb.capacity
====
